---- MODULE Spec2Model ----
(***************************************************************************)
(* OptimalFacilitySiting/app.py: the upload route of the Flask             *)
(* application and the scoring pipeline behind it.                         *)
(*                                                                         *)
(* Numbers.  The pipeline computes with IEEE doubles.  Here a cell of a    *)
(* layer is an exact rational, a NaN, or an unparseable text; arithmetic   *)
(* is exact (no rounding), NaN propagates as in IEEE.  All magnitudes are  *)
(* counted in units of 1e-9, the epsilon of scoring_logic, so EPS is 1.    *)
(*                                                                         *)
(* Geometry.  Candidates and infrastructure features are points on one     *)
(* axis of the plane; a point is its own centroid and the distance of two  *)
(* points is the absolute difference of their coordinates.                 *)
(***************************************************************************)
EXTENDS Integers, Sequences, FiniteSets, TLC

\* ------------------------------------------------------------------ bounds
\* most candidates of an enumerated short layer
MaxCand == 2
\* density values of a candidate are 0 .. MaxDens (times Grain)
MaxDens == 1
\* ground positions are 0 .. MaxPos
MaxPos == 1
\* data values are multiples of Grain units of 1e-9
Grain == 10

\* requests the threaded server model receives
MaxReq == 2

\* --------------------------------------------------------- program constants
\* 1e-9 of scoring_logic, in units of 1e-9
EPS == 1
\* gdf_scored.head(5)
HEAD == 5
\* the weights 0.4, 0.2, 0.2, 0.2 of the composite score, in tenths
W_DENS == 4
W_INFRA == 2
W_DEN == 10
\* gdf['dens_sqkm'] = 1: the number 1 in units of 1e-9
ONE == 1000000000

KEYS == {"health", "police", "roads"}

\* ------------------------------------------------------------------ numbers
Abs(x) == IF x < 0 THEN -x ELSE x

RECURSIVE GCD(_, _)
GCD(a, b) == IF b = 0 THEN a ELSE GCD(b, a % b)

\* the rational n/d (d # 0) in lowest terms with a positive denominator
Q(n, d) ==
    LET g == GCD(Abs(n), Abs(d))
        s == IF d < 0 THEN -1 ELSE 1
    IN  [k |-> "num", n |-> s * (n \div g), d |-> s * (d \div g)]

I(n) == Q(n, 1)
NaN == [k |-> "nan", n |-> 0, d |-> 1]
\* a text that pd.to_numeric cannot parse
Txt == [k |-> "str", n |-> 0, d |-> 1]

IsNum(a) == a.k = "num"
IsNaN(a) == a.k = "nan"

\* IEEE: an operation with a NaN operand is NaN
Add(a, b) == IF IsNum(a) /\ IsNum(b) THEN Q(a.n * b.d + b.n * a.d, a.d * b.d) ELSE NaN
Sub(a, b) == IF IsNum(a) /\ IsNum(b) THEN Q(a.n * b.d - b.n * a.d, a.d * b.d) ELSE NaN
Mul(a, b) == IF IsNum(a) /\ IsNum(b) THEN Q(a.n * b.n, a.d * b.d) ELSE NaN
\* the divisors of scoring_logic are max - min + 1e-9 > 0, or NaN
Div(a, b) == IF IsNum(a) /\ IsNum(b) /\ b.n # 0 THEN Q(a.n * b.d, a.d * b.n) ELSE NaN

\* IEEE comparisons: false when an operand is NaN
Lt(a, b) == IsNum(a) /\ IsNum(b) /\ a.n * b.d < b.n * a.d
Le(a, b) == IsNum(a) /\ IsNum(b) /\ a.n * b.d <= b.n * a.d
Eq(a, b) == IsNum(a) /\ IsNum(b) /\ a.n * b.d = b.n * a.d

\* ------------------------------------------------------------------- layers
\* A layer (GeoDataFrame) is [crs, rows]; a row is a function from column
\* names to cells.  "idx" is the row's index label, "geometry" its point.
Cols(gdf) == IF gdf.rows = <<>> THEN {} ELSE DOMAIN gdf.rows[1]

Column(gdf, col) == [i \in 1..Len(gdf.rows) |-> gdf.rows[i][col]]

\* gdf[col] = values (a sequence, one cell per row), in place
SetCol(gdf, col, values) ==
    [gdf EXCEPT !.rows =
        [i \in 1..Len(gdf.rows) |->
            [c \in DOMAIN gdf.rows[i] \cup {col} |->
                IF c = col THEN values[i] ELSE gdf.rows[i][c]]]]

Const(gdf, v) == [i \in 1..Len(gdf.rows) |-> v]

\* Series.min() / Series.max(): NaN cells are skipped, NaN when none is left
SeriesMin(s) ==
    LET nums == {i \in DOMAIN s : IsNum(s[i])}
    IN  IF nums = {} THEN NaN
        ELSE s[CHOOSE i \in nums : \A j \in nums : Le(s[i], s[j])]

SeriesMax(s) ==
    LET nums == {i \in DOMAIN s : IsNum(s[i])}
    IN  IF nums = {} THEN NaN
        ELSE s[CHOOSE i \in nums : \A j \in nums : Le(s[j], s[i])]

\* ----------------------------------------------------------- compute_nearest
\* gdf_infra.distance(geom.centroid).min()
NearestDist(geom, infraRows) ==
    SeriesMin([j \in 1..Len(infraRows) |->
                  I(Abs(geom.n - infraRows[j].geometry.n))])

RECURSIVE NearestLoop(_, _, _)
NearestLoop(gdf, infra, keys) ==
    IF keys = {} THEN gdf
    ELSE LET key == CHOOSE k \in keys : TRUE
             col == IF infra[key].rows = <<>>
                    THEN Const(gdf, NaN)
                    ELSE [i \in 1..Len(gdf.rows) |->
                             NearestDist(gdf.rows[i].geometry, infra[key].rows)]
         IN  NearestLoop(SetCol(gdf, "dist_" \o key, col), infra, keys \ {key})

compute_nearest(gdf, infra) == NearestLoop(gdf, infra, DOMAIN infra)

\* ------------------------------------------------------------- scoring_logic
\* pd.to_numeric(errors='coerce').fillna(0)
ToNumericFill0(cell) == IF IsNum(cell) THEN cell ELSE I(0)

DensColumn(gdf) ==
    IF "dens_sqkm" \notin Cols(gdf)
    THEN SetCol(gdf, "dens_sqkm", Const(gdf, I(ONE)))
    ELSE SetCol(gdf, "dens_sqkm",
                [i \in 1..Len(gdf.rows) |-> ToNumericFill0(gdf.rows[i].dens_sqkm)])

\* (s - s.min()) / (s.max() - s.min() + 1e-9)
MinMax(s) ==
    LET lo == SeriesMin(s)
        hi == SeriesMax(s)
    IN  [i \in DOMAIN s |-> Div(Sub(s[i], lo), Add(Sub(hi, lo), I(EPS)))]

DensScore(gdf) == SetCol(gdf, "dens_score", MinMax(Column(gdf, "dens_sqkm")))

\* the key score with a fault: the rescaled distance is not subtracted from 1
KeyScoreColumn_NotInverted(gdf, key) ==
    IF ("dist_" \o key) \in Cols(gdf)
    THEN MinMax(Column(gdf, "dist_" \o key))
    ELSE Const(gdf, I(0))

KeyScoreColumn(gdf, key) ==
    IF ("dist_" \o key) \in Cols(gdf)
    THEN LET mm == MinMax(Column(gdf, "dist_" \o key))
         IN  [i \in DOMAIN mm |-> Sub(I(1), mm[i])]
    ELSE Const(gdf, I(0))

RECURSIVE KeyScoreLoop(_, _)
KeyScoreLoop(gdf, keys) ==
    IF keys = {} THEN gdf
    ELSE LET key == CHOOSE k \in keys : TRUE
         IN  KeyScoreLoop(SetCol(gdf, key \o "_score", KeyScoreColumn(gdf, key)),
                          keys \ {key})

Weighted(w, cell) == Mul(Q(w, W_DEN), cell)

CompositeScore(gdf) ==
    SetCol(gdf, "score",
        [i \in 1..Len(gdf.rows) |->
            Add(Add(Add(Weighted(W_DENS, gdf.rows[i].dens_score),
                        Weighted(W_INFRA, gdf.rows[i].health_score)),
                    Weighted(W_INFRA, gdf.rows[i].police_score)),
                Weighted(W_INFRA, gdf.rows[i].roads_score))])

\* the columns scoring_logic adds to its argument in place
ScoreColumns(gdf) == CompositeScore(KeyScoreLoop(DensScore(DensColumn(gdf)), KEYS))

\* sort_values(by='score', ascending=False) with the default kind
\* 'quicksort': rows with a NaN score come last in their original order;
\* the others are in descending order, and the order of equal scores is
\* whatever the sort of the build produces.  TIE_POLICIES are the outcomes
\* modelled: equal scores in their original order, or reversed.
TIE_POLICIES == {"original", "reversed"}

\* the order of the sort with a fault: ascending
Before_Ascending(r1, p1, r2, p2, tie) ==
    \/ Lt(r1.score, r2.score)
    \/ /\ Eq(r1.score, r2.score)
       /\ IF tie = "original" THEN p1 < p2 ELSE p2 < p1

Before(r1, p1, r2, p2, tie) ==
    \/ Lt(r2.score, r1.score)
    \/ /\ Eq(r1.score, r2.score)
       /\ IF tie = "original" THEN p1 < p2 ELSE p2 < p1

SortValues(rows, tie) ==
    LET n    == Len(rows)
        nums == {i \in 1..n : IsNum(rows[i].score)}
        nans == {i \in 1..n : ~IsNum(rows[i].score)}
        rank(i) ==
            IF i \in nums
            THEN 1 + Cardinality({j \in nums : j # i /\ Before(rows[j], j, rows[i], i, tie)})
            ELSE 1 + Cardinality(nums) + Cardinality({j \in nans : j < i})
    IN  [p \in 1..n |-> rows[CHOOSE i \in 1..n : rank(i) = p]]

\* line 78: the sorted copy of the layer with its score columns
SortedCopy(withScores, tie) ==
    [withScores EXCEPT !.rows = SortValues(withScores.rows, tie)]

scoring_logic(gdf, tie) == SortedCopy(ScoreColumns(gdf), tie)

\* DataFrame.head(n)
HeadRows(gdf, n) ==
    [gdf EXCEPT !.rows = SubSeq(gdf.rows, 1, IF Len(gdf.rows) < n THEN Len(gdf.rows) ELSE n)]

\* --------------------------------------------------------------- file names
\* A file name is a sequence of characters.
DOT == "."
LOWER == [c \in {"Z", "I", "P", "S", "H"} |->
            CASE c = "Z" -> "z" [] c = "I" -> "i" [] c = "P" -> "p"
              [] c = "S" -> "s" [] c = "H" -> "h"]

\* str.lower()
Lower(name) == [i \in 1..Len(name) |-> IF name[i] \in DOMAIN LOWER THEN LOWER[name[i]] ELSE name[i]]

HasDot(name) == \E i \in 1..Len(name) : name[i] = DOT

\* name.rsplit('.', 1)[1]: what follows the last dot
AfterLastDot(name) ==
    LET last == CHOOSE i \in 1..Len(name) :
                    name[i] = DOT /\ \A j \in (i + 1)..Len(name) : name[j] # DOT
    IN  SubSeq(name, last + 1, Len(name))

\* str.endswith(suffix)
EndsWith(name, suffix) ==
    /\ Len(name) >= Len(suffix)
    /\ SubSeq(name, Len(name) - Len(suffix) + 1, Len(name)) = suffix

ALLOWED_EXTENSIONS == {<<"z", "i", "p">>}
SHP_SUFFIX == <<".", "s", "h", "p">>

\* allowed_file with a fault: the extension is looked for at the end of the
\* name, dot or no dot
allowed_file_suffix(filename) ==
    \E ext \in ALLOWED_EXTENSIONS : EndsWith(Lower(filename), ext)

allowed_file(filename) ==
    HasDot(filename) /\ Lower(AfterLastDot(filename)) \in ALLOWED_EXTENSIONS

\* ------------------------------------------------- coordinate reference systems
WGS84 == "EPSG:4326"
METRIC == "EPSG:32733"
MERCATOR == "EPSG:3857"
NOCRS == "none"
NoLayer == [crs |-> NOCRS, rows |-> <<>>]

\* coordinate units per degree of ground position; a stand-in for the
\* projections that keeps them exact, injective and different from each other
UnitsOf(crs) == CASE crs = WGS84 -> 1 [] crs = METRIC -> Grain [] crs = MERCATOR -> 2

set_crs(layer, crs) == [layer EXCEPT !.crs = crs]

to_crs(layer, crs) ==
    [crs |-> crs,
     rows |-> [i \in 1..Len(layer.rows) |->
                 [layer.rows[i] EXCEPT
                     !.geometry = I((@.n * UnitsOf(crs)) \div UnitsOf(layer.crs))]]]

\* upload(): lines 121-129
Normalize(layer) ==
    LET geo == IF layer.crs = NOCRS THEN set_crs(layer, WGS84)
               ELSE IF layer.crs # WGS84 THEN to_crs(layer, WGS84)
               ELSE layer
    IN  to_crs(geo, METRIC)

\* -------------------------------------------------------- load_infrastructure
\* A dataset gives for each key the file at its path: missing, or a layer.
DatasetReadable(ds) == \A key \in KEYS : ds[key].present

LoadOne(file) ==
    LET withCrs == IF file.layer.crs = NOCRS THEN set_crs(file.layer, WGS84) ELSE file.layer
    IN  to_crs(withCrs, METRIC)

load_infrastructure(ds) == [key \in KEYS |-> LoadOne(ds[key])]

\* ------------------------------------------------------ the request pipeline
\* upload(): lines 129-139, from the layer read to gdf_scored and top5
ScoredOf(layer, ds, tie) ==
    scoring_logic(compute_nearest(Normalize(layer), load_infrastructure(ds)), tie)

Top5Of(scoredLayer) == to_crs(HeadRows(scoredLayer, HEAD), WGS84)

\* to_file with a fault: the features are appended to the file that is there
to_file_append(existing, layer) == [layer EXCEPT !.rows = existing.rows \o layer.rows]

\* top5.to_file(path, driver='GeoJSON'): the file is replaced
to_file(existing, layer) == layer

\* ------------------------------------------------------------------- state
VARIABLES
    \* the scoring pipeline run on its own
    input,      \* the layer handed to compute_nearest
    infra,      \* the infrastructure map handed to compute_nearest
    gdf,        \* the layer the stages mutate in place
    scored,     \* the sorted copy scoring_logic returns
    top5,       \* gdf_scored.head(5)
    stage,      \* "raw", "nearest", "scored", "top5"
    \* the server: the upload folder
    zipFile,    \* uploads/shapefile.zip: the archive saved there, or "absent"
    extractDir, \* uploads/shapefile_extracted: file name -> content
    top5File,   \* uploads/top5.geojson: the layer written there, or NoLayer
    \* the server: its environment, fixed while it runs
    dataset,    \* the three files of INFRASTRUCTURE_FILES
    listdirOrder, \* the order in which os.listdir yields names
    tiePolicy,  \* the order in which the build's sort leaves equal scores
    \* the server: the requests in flight, one per thread
    pc,         \* "idle", "saved", "extracted", "picked", "read", "written"
    req,        \* the request's input
    shp,        \* shp_file
    layer,      \* gdf as read
    out,        \* gdf_scored
    stages,     \* the stages the request has completed
    nreq,       \* requests received, counted up to MaxReq
    \* the request that returned last: its input, its response, what it read
    \* and produced, what top5.geojson held when it returned Success, and,
    \* when the request before it had the same input and both returned
    \* Success, what that one produced
    last

pipeVars == <<input, infra, gdf, scored, top5, stage>>
folderVars == <<zipFile, extractDir, top5File>>
envVars == <<dataset, listdirOrder, tiePolicy>>
threadVars == <<pc, req, shp, layer, out, stages>>
serverVars == <<folderVars, envVars, threadVars, nreq, last>>
vars == <<pipeVars, serverVars>>

\* ------------------------------------------------------- inputs of the server
THREADS == {"t1", "t2"}

ZIP_A == <<"a", ".", "z", "i", "p">>
ZIP_B == <<"b", ".", "Z", "I", "P">>
ZIP_N == <<"n", ".", "z", "i", "p">>
ZIP_X == <<"x", ".", "z", "i", "p">>
ZIP_G == <<"g", ".", "z", "i", "p">>
NAME_BARE == <<"z", "i", "p">>
NAME_BAK == <<"a", ".", "z", "i", "p", ".", "b", "a", "k">>
NAME_EMPTY == <<>>

A_SHP == <<"a", ".", "s", "h", "p">>
B_SHP == <<"b", ".", "s", "h", "p">>
N_TXT == <<"n", ".", "t", "x", "t">>
FILE_NAMES == {A_SHP, B_SHP, N_TXT}

\* the files of each uploaded archive; "X" is not a zip archive at all
ARCHIVES == {"A", "B", "N", "X", "G"}
IsZip(archive) == archive # "X"
FilesOf(archive) ==
    CASE archive = "A"  -> [n \in {A_SHP} |-> "LA"]
      [] archive = "B"  -> [n \in {B_SHP, N_TXT} |-> IF n = B_SHP THEN "LB" ELSE "text"]
      [] archive = "N"  -> [n \in {N_TXT} |-> "text"]
      [] archive = "G"  -> [n \in {A_SHP} |-> "garbage"]
      [] OTHER -> <<>>

\* gpd.read_file: the layer a shapefile's bytes hold
Readable(content) == content \in {"LA", "LB"}
LayerOf(content) ==
    CASE content = "LA" ->
            [crs |-> NOCRS,
             rows |-> <<[idx |-> I(1), geometry |-> I(0), dens_sqkm |-> I(Grain)],
                        [idx |-> I(2), geometry |-> I(MaxPos), dens_sqkm |-> Txt]>>]
      [] content = "LB" ->
            [crs |-> MERCATOR,
             rows |-> <<[idx |-> I(1), geometry |-> I(2 * MaxPos)],
                        [idx |-> I(2), geometry |-> I(0)]>>]

\* what a client sends: no 'file' part, or a file name and the bytes
NoPart == [hasFile |-> FALSE, filename |-> NAME_EMPTY, archive |-> "A"]
Upload(filename, archive) == [hasFile |-> TRUE, filename |-> filename, archive |-> archive]
REQUESTS ==
    {NoPart, Upload(NAME_EMPTY, "A"), Upload(NAME_BARE, "A"), Upload(NAME_BAK, "A"),
     Upload(ZIP_A, "A"), Upload(ZIP_B, "B"), Upload(ZIP_N, "N"),
     Upload(ZIP_X, "X"), Upload(ZIP_G, "G")}

File(crs, positions) ==
    [present |-> TRUE,
     layer |-> [crs |-> crs,
                rows |-> [j \in 1..Len(positions) |-> [geometry |-> I(positions[j])]]]]
NoFile == [present |-> FALSE, layer |-> NoLayer]

\* the datasets the server may find at its fixed paths: all three readable,
\* or the roads file missing
DATASETS ==
    {[health |-> File(NOCRS, <<0, MaxPos>>), police |-> File(WGS84, <<MaxPos>>),
      roads |-> File(WGS84, <<0>>)],
     [health |-> File(WGS84, <<0>>), police |-> File(WGS84, <<MaxPos>>),
      roads |-> NoFile]}

\* two of the orders a listing of the extraction directory can have
LISTDIR_ORDERS == {<<A_SHP, B_SHP, N_TXT>>, <<N_TXT, B_SHP, A_SHP>>}

\* ---------------------------------------------------------------- responses
Error(text) == [message |-> "Error", detail |-> text]
Success == [message |-> "Success", detail |-> "uploads/top5.geojson"]
NoResp == [message |-> "none", detail |-> ""]
NO_FILE_PART == "No file part in the request"
NO_SELECTED == "No selected file"
ONLY_ZIP == "Only .zip shapefiles are supported"
NO_SHP == "No .shp file found in ZIP"

\* the handler with a fault: only the archive's errors are caught, the
\* others escape
ExceptHandler_ZipOnly(exc) == IF exc = "BadZipFile" THEN Error(exc) ELSE NoResp

\* except Exception as e: the response that carries str(e)
ExceptHandler(exc) == Error(exc)

NoBefore == [ranking |-> NoLayer, artifact |-> NoLayer]
NoRun ==
    [req |-> NoPart, resp |-> NoResp, stages |-> {}, read |-> NoLayer,
     ranking |-> NoLayer, artifact |-> NoLayer, before |-> NoBefore]

\* ------------------------------------------------ the scoring pipeline alone
Point(g) == I(g * Grain)

\* the dens_sqkm cells of an enumerated candidate: an unparseable text
\* (coerced to 0) or a positive density
DensCells == {Txt} \cup {I(v * Grain) : v \in 1..MaxDens}

RowDens(i, pos, dens) == [idx |-> I(i), geometry |-> Point(pos), dens_sqkm |-> dens]
RowBare(i, pos) == [idx |-> I(i), geometry |-> Point(pos)]

SeqsUpTo(S, n) == UNION {[1..m -> S] : m \in 1..n}

\* layers of 1..MaxCand candidates with a dens_sqkm column
ShortLayers ==
    {[crs |-> METRIC,
      rows |-> [i \in DOMAIN c |-> RowDens(i, c[i][1], c[i][2])]] :
        c \in SeqsUpTo((0..MaxPos) \X DensCells, MaxCand)}

\* layers of 1..MaxCand candidates without a dens_sqkm column
BareLayers ==
    {[crs |-> METRIC, rows |-> [i \in DOMAIN c |-> RowBare(i, c[i])]] :
        c \in SeqsUpTo(0..MaxPos, MaxCand)}

\* layers of HEAD + 1 candidates, spread over the positions and densities
LongLayers ==
    {[crs |-> METRIC,
      rows |-> [i \in 1..(HEAD + 1) |->
                  RowDens(i, i % (MaxPos + 1), I(((i + s) % (MaxDens + 1)) * Grain))]] :
        s \in 0..MaxDens}

Layers == ShortLayers \cup BareLayers \cup LongLayers

InfraLayer(positions) ==
    [crs |-> METRIC,
     rows |-> [j \in 1..Len(positions) |-> [geometry |-> Point(positions[j])]]]

\* an infrastructure map: each key is missing, an empty layer, or has features
Missing == <<-1>>
HealthChoices == {Missing, <<>>, <<0>>, <<0, MaxPos>>}
OtherChoices == {Missing, <<>>, <<MaxPos>>}

InfraMaps ==
    {[k \in {key \in KEYS : c[key] # Missing} |-> InfraLayer(c[k])] :
        c \in {f \in [KEYS -> HealthChoices \cup OtherChoices] :
                  /\ f["police"] \in OtherChoices
                  /\ f["roads"] \in OtherChoices
                  /\ f["health"] \in HealthChoices}}

ServerIdle ==
    /\ zipFile = "absent"
    /\ extractDir = <<>>
    /\ top5File = NoLayer
    /\ pc = [t \in THREADS |-> "idle"]
    /\ req = [t \in THREADS |-> NoPart]
    /\ shp = [t \in THREADS |-> NAME_EMPTY]
    /\ layer = [t \in THREADS |-> NoLayer]
    /\ out = [t \in THREADS |-> NoLayer]
    /\ stages = [t \in THREADS |-> {}]
    /\ nreq = 0
    /\ last = NoRun

PipelineIdle ==
    /\ input = NoLayer
    /\ infra = <<>>
    /\ gdf = NoLayer
    /\ scored = NoLayer
    /\ top5 = NoLayer
    /\ stage = "off"

InitScore ==
    /\ input \in Layers
    /\ infra \in InfraMaps
    /\ gdf = input
    /\ scored = NoLayer
    /\ top5 = NoLayer
    /\ stage = "raw"
    /\ ServerIdle
    /\ dataset = CHOOSE ds \in DATASETS : DatasetReadable(ds)
    /\ listdirOrder = <<A_SHP, B_SHP, N_TXT>>
    /\ tiePolicy = "original"

ComputeNearest ==
    /\ stage = "raw"
    /\ gdf' = compute_nearest(gdf, infra)
    /\ stage' = "nearest"
    /\ UNCHANGED <<input, infra, scored, top5, serverVars>>

ScoringLogic ==
    /\ stage = "nearest"
    /\ gdf' = ScoreColumns(gdf)
    /\ \E tie \in TIE_POLICIES : scored' = SortedCopy(gdf', tie)
    /\ stage' = "scored"
    /\ UNCHANGED <<input, infra, top5, serverVars>>

ExportTop ==
    /\ stage = "scored"
    /\ top5' = HeadRows(scored, HEAD)
    /\ stage' = "top5"
    /\ UNCHANGED <<input, infra, gdf, scored, serverVars>>

NextScore == ComputeNearest \/ ScoringLogic \/ ExportTop

SpecScore == InitScore /\ [][NextScore]_vars

\* ------------------------------------------------------------- the server
Init ==
    /\ PipelineIdle
    /\ ServerIdle
    /\ dataset \in DATASETS
    /\ listdirOrder \in LISTDIR_ORDERS
    /\ tiePolicy \in TIE_POLICIES

ALL_STAGES == {"save", "extract", "pick", "read", "process", "write"}

\* the handler returns `response` before anything was saved
Received == nreq' = IF nreq < MaxReq THEN nreq + 1 ELSE nreq

Rejected(t, r, response) ==
    /\ pc[t] = "idle"
    /\ Received
    /\ last' = [NoRun EXCEPT !.req = r, !.resp = response]
    /\ UNCHANGED <<threadVars, folderVars, envVars, pipeVars>>

\* the handler of an accepted upload returns `response`; gdf and the other
\* locals go out of scope
Returned(t, response) ==
    /\ pc' = [pc EXCEPT ![t] = IF response = NoResp THEN "escaped" ELSE "idle"]
    /\ last' = [req |-> req[t], resp |-> response, stages |-> stages[t],
                read |-> layer[t], ranking |-> out[t],
                artifact |-> IF response = Success THEN top5File ELSE NoLayer,
                before |-> IF last.req = req[t] /\ last.resp = Success /\ response = Success
                           THEN [ranking |-> last.ranking, artifact |-> last.artifact]
                           ELSE NoBefore]
    /\ req' = [req EXCEPT ![t] = NoPart]
    /\ shp' = [shp EXCEPT ![t] = NAME_EMPTY]
    /\ layer' = [layer EXCEPT ![t] = NoLayer]
    /\ out' = [out EXCEPT ![t] = NoLayer]
    /\ stages' = [stages EXCEPT ![t] = {}]
    /\ UNCHANGED <<folderVars, envVars, pipeVars, nreq>>

\* a stage raised `exc`: line 147
Raised(t, exc) == Returned(t, ExceptHandler(exc))

Advance(t, to, done) ==
    /\ pc' = [pc EXCEPT ![t] = to]
    /\ stages' = [stages EXCEPT ![t] = @ \cup done]
    /\ UNCHANGED <<req, last, nreq, envVars, pipeVars>>

\* lines 89-90
RejectNoFilePart(t) ==
    \E r \in REQUESTS :
        /\ ~r.hasFile
        /\ Rejected(t, r, Error(NO_FILE_PART))

\* lines 92-94
RejectEmptyFilename(t) ==
    \E r \in REQUESTS :
        /\ r.hasFile
        /\ r.filename = NAME_EMPTY
        /\ Rejected(t, r, Error(NO_SELECTED))

\* lines 96-97
RejectExtension(t) ==
    \E r \in REQUESTS :
        /\ r.hasFile
        /\ r.filename # NAME_EMPTY
        /\ ~allowed_file(r.filename)
        /\ Rejected(t, r, Error(ONLY_ZIP))

\* lines 99-100: file.save(zip_path)
SaveArchive(t) ==
    \E r \in REQUESTS :
        /\ pc[t] = "idle"
        /\ r.hasFile
        /\ r.filename # NAME_EMPTY
        /\ allowed_file(r.filename)
        /\ Received
        /\ zipFile' = r.archive
        /\ pc' = [pc EXCEPT ![t] = "saved"]
        /\ req' = [req EXCEPT ![t] = r]
        /\ stages' = [stages EXCEPT ![t] = {"save"}]
        /\ UNCHANGED <<extractDir, top5File, shp, layer, out, last, envVars, pipeVars>>

\* zip_ref.extractall(extract_to): the members replace the files of their names
extract_zip(archive, dir) ==
    LET files == FilesOf(archive)
    IN  [n \in DOMAIN dir \cup DOMAIN files |->
            IF n \in DOMAIN files THEN files[n] ELSE dir[n]]

\* lines 102-104: the archive extracted is the one at zip_path now
Extract(t) ==
    /\ pc[t] = "saved"
    /\ IF IsZip(zipFile)
       THEN /\ extractDir' = extract_zip(zipFile, extractDir)
            /\ Advance(t, "extracted", {"extract"})
            /\ UNCHANGED <<zipFile, top5File, shp, layer, out>>
       ELSE Raised(t, "BadZipFile")

\* os.listdir(extract_folder)
listdir(dir) == SelectSeq(listdirOrder, LAMBDA n : n \in DOMAIN dir)

\* lines 106-110: the first name that ends with '.shp', or <<>> for None
FirstShp(names) ==
    LET hits == {i \in 1..Len(names) : EndsWith(names[i], SHP_SUFFIX)}
    IN  IF hits = {} THEN NAME_EMPTY
        ELSE names[CHOOSE i \in hits : \A j \in hits : i <= j]

\* lines 106-113
PickShp(t) ==
    /\ pc[t] = "extracted"
    /\ LET found == FirstShp(listdir(extractDir))
       IN  IF found = NAME_EMPTY
           THEN Returned(t, Error(NO_SHP))
           ELSE /\ shp' = [shp EXCEPT ![t] = found]
                /\ Advance(t, "picked", {"pick"})
                /\ UNCHANGED <<folderVars, layer, out>>

\* line 115: gpd.read_file(shp_file)
ReadFile(t) ==
    /\ pc[t] = "picked"
    /\ LET content == extractDir[shp[t]]
       IN  IF Readable(content)
           THEN /\ layer' = [layer EXCEPT ![t] = LayerOf(content)]
                /\ Advance(t, "read", {"read"})
                /\ UNCHANGED <<folderVars, shp, out>>
           ELSE Raised(t, "DriverError")

\* lines 117-143: normalise, load the infrastructure, score, write top5.geojson
ProcessAndWrite(t) ==
    /\ pc[t] = "read"
    /\ IF ~DatasetReadable(dataset)
       THEN Raised(t, "DataSourceError")
       ELSE \E ioError \in BOOLEAN :
               IF ioError
               THEN Raised(t, "OSError")
               ELSE LET ranking == ScoredOf(layer[t], dataset, tiePolicy)
                    IN  /\ out' = [out EXCEPT ![t] = ranking]
                        /\ top5File' = to_file(top5File, Top5Of(ranking))
                        /\ Advance(t, "written", {"process", "write"})
                        /\ UNCHANGED <<zipFile, extractDir, shp, layer>>

\* line 145
Respond(t) ==
    /\ pc[t] = "written"
    /\ Returned(t, Success)

\* the threaded server: MaxReq requests, interleaved at the steps above
Next ==
    \E t \in THREADS :
        \/ nreq < MaxReq /\ RejectNoFilePart(t)
        \/ nreq < MaxReq /\ RejectEmptyFilename(t)
        \/ nreq < MaxReq /\ RejectExtension(t)
        \/ nreq < MaxReq /\ SaveArchive(t)
        \/ Extract(t)
        \/ PickShp(t)
        \/ ReadFile(t)
        \/ ProcessAndWrite(t)
        \/ Respond(t)

Spec == Init /\ [][Next]_vars

\* any number of requests, one at a time, each run to its response before
\* the next arrives
Alone(t) == \A u \in THREADS \ {t} : pc[u] = "idle"

NextSeq ==
    \E t \in THREADS :
        \/ Alone(t) /\ RejectNoFilePart(t)
        \/ Alone(t) /\ RejectEmptyFilename(t)
        \/ Alone(t) /\ RejectExtension(t)
        \/ Alone(t) /\ SaveArchive(t)
        \/ Alone(t) /\ Extract(t)
        \/ Alone(t) /\ PickShp(t)
        \/ Alone(t) /\ ReadFile(t)
        \/ Alone(t) /\ ProcessAndWrite(t)
        \/ Alone(t) /\ Respond(t)

SpecSeq == Init /\ [][NextSeq]_vars

\* ===================================================== the scoring claims
Scored == stage \in {"scored", "top5"}
SCORE_COLS == {"dens_score", "health_score", "police_score", "roads_score", "score"}
EmptyKeys == {key \in DOMAIN infra : infra[key].rows = <<>>}
InUnit(v) == Le(I(0), v) /\ Le(v, I(1))

\* C5: when infrastructure layer `key` has no geometry, compute_nearest then
\* scoring_logic give key_score = 0 to every candidate and a composite score
\* that is a number, not NaN.
C5_EmptyInfraScoresZero ==
    Scored =>
        \A key \in EmptyKeys : \A i \in 1..Len(scored.rows) :
            /\ scored.rows[i][key \o "_score"] = I(0)
            /\ IsNum(scored.rows[i].score)

\* C6: after scoring_logic every dens_score, health_score, police_score,
\* roads_score and composite score of every candidate lies in [0,1].
C6_ScoresInUnitInterval ==
    Scored =>
        \A i \in 1..Len(scored.rows) : \A c \in SCORE_COLS : InUnit(scored.rows[i][c])

\* the keys whose distance column holds numbers that are not all equal
NonDegenerate(key) ==
    /\ key \in DOMAIN infra
    /\ \A i \in 1..Len(gdf.rows) : IsNum(gdf.rows[i]["dist_" \o key])
    /\ \E i, j \in 1..Len(gdf.rows) :
          ~Eq(gdf.rows[i]["dist_" \o key], gdf.rows[j]["dist_" \o key])

DistOf(i, key) == gdf.rows[i]["dist_" \o key]
ScoreOf(i, key) == gdf.rows[i][key \o "_score"]
IsMinDist(i, key) == \A j \in 1..Len(gdf.rows) : Le(DistOf(i, key), DistOf(j, key))
IsMaxDist(i, key) == \A j \in 1..Len(gdf.rows) : Le(DistOf(j, key), DistOf(i, key))
Monotone(key) ==
    \A i, j \in 1..Len(gdf.rows) :
        Lt(DistOf(i, key), DistOf(j, key)) => Le(ScoreOf(j, key), ScoreOf(i, key))
DistRange(key) ==
    Sub(SeriesMax(Column(gdf, "dist_" \o key)), SeriesMin(Column(gdf, "dist_" \o key)))

\* C7 as stated: for a distance column whose values are not all equal, the
\* nearest candidate scores 1, the farthest scores 0, and a nearer candidate
\* never scores lower than a farther one.
C7_MinMaxLaw ==
    Scored =>
        \A key \in KEYS : NonDegenerate(key) =>
            /\ \A i \in 1..Len(gdf.rows) :
                  /\ IsMinDist(i, key) => ScoreOf(i, key) = I(1)
                  /\ IsMaxDist(i, key) => ScoreOf(i, key) = I(0)
            /\ Monotone(key)

\* C7 amended: the nearest candidate scores 1; the farthest has the lowest
\* score, eps / (max - min + eps), which is above 0; a nearer candidate never
\* scores lower than a farther one.
C7_MinMaxLawEps ==
    Scored =>
        \A key \in KEYS : NonDegenerate(key) =>
            /\ \A i \in 1..Len(gdf.rows) :
                  /\ IsMinDist(i, key) => ScoreOf(i, key) = I(1)
                  /\ IsMaxDist(i, key) =>
                        /\ ScoreOf(i, key) = Div(I(EPS), Add(DistRange(key), I(EPS)))
                        /\ Lt(I(0), ScoreOf(i, key))
                        /\ \A j \in 1..Len(gdf.rows) : Le(ScoreOf(i, key), ScoreOf(j, key))
            /\ Monotone(key)

\* a layer whose three distance columns all vary has been scored: its
\* nearest candidate to a health facility scores 1, a farther one less
C7_Witness ==
    /\ Scored
    /\ \A key \in KEYS : NonDegenerate(key)
    /\ \E i, j \in 1..Len(gdf.rows) :
          /\ Lt(DistOf(i, "health"), DistOf(j, "health"))
          /\ ScoreOf(i, "health") = I(1)
          /\ Lt(ScoreOf(j, "health"), I(1))

\* the sorted copy holds the rows of the scored layer, each once
IsPermutation ==
    /\ Len(scored.rows) = Len(gdf.rows)
    /\ \A i \in 1..Len(gdf.rows) :
          \E p \in 1..Len(scored.rows) : scored.rows[p] = gdf.rows[i]
    /\ \A p, q \in 1..Len(scored.rows) :
          p # q => scored.rows[p].idx # scored.rows[q].idx
    /\ \A i \in 1..Len(input.rows) :
          \E p \in 1..Len(scored.rows) :
              /\ scored.rows[p].idx = input.rows[i].idx
              /\ scored.rows[p].geometry = input.rows[i].geometry

ExportIsPrefix ==
    stage = "top5" =>
        /\ Len(top5.rows) = (IF Len(scored.rows) < 5 THEN Len(scored.rows) ELSE 5)
        /\ \A p \in 1..Len(top5.rows) : top5.rows[p] = scored.rows[p]

\* C8 as stated: the sorted layer is a permutation of the candidates in
\* non-increasing order of score, equal scores in their original relative
\* order; the export is its first min(5, n) rows, so no candidate left out
\* scores strictly higher than an exported one.
C8_StableSortedTopFive ==
    Scored =>
        /\ IsPermutation
        /\ \A p, q \in 1..Len(scored.rows) :
              p < q =>
                  /\ ~Lt(scored.rows[p].score, scored.rows[q].score)
                  /\ Eq(scored.rows[p].score, scored.rows[q].score) =>
                        Lt(scored.rows[p].idx, scored.rows[q].idx)
        /\ ExportIsPrefix

\* C8 amended: the sorted layer is a permutation of the candidates in which
\* no row comes after a row of strictly lower score (the order of equal
\* scores is not fixed); the export is its first min(5, n) rows, and no
\* candidate left out scores strictly higher than an exported one.
C8_SortedTopFive ==
    Scored =>
        /\ IsPermutation
        /\ \A p, q \in 1..Len(scored.rows) :
              p < q => ~Lt(scored.rows[p].score, scored.rows[q].score)
        /\ ExportIsPrefix
        /\ stage = "top5" =>
              \A q \in (Len(top5.rows) + 1)..Len(scored.rows) :
                  \A p \in 1..Len(top5.rows) :
                      ~Lt(top5.rows[p].score, scored.rows[q].score)

\* more than five candidates, of different scores, have been ranked and cut
C8_Witness ==
    /\ stage = "top5"
    /\ Len(scored.rows) > 5
    /\ Len(top5.rows) = 5
    /\ Lt(scored.rows[6].score, scored.rows[1].score)
    /\ \E p \in 1..5 : scored.rows[p].idx # I(p)

\* ====================================================== the server claims
IdleAll == \A t \in THREADS : pc[t] = "idle"
Accepted(run) == run.stages # {}
ShpMembers(archive) == {n \in DOMAIN FilesOf(archive) : EndsWith(n, SHP_SUFFIX)}
OwnContent(archive) == FilesOf(archive)[CHOOSE n \in ShpMembers(archive) : TRUE]
OwnArtifact(archive) ==
    Top5Of(ScoredOf(LayerOf(OwnContent(archive)), dataset, tiePolicy))

\* C1: whatever the interleaving of two upload() requests, the layer a
\* request reads and the top5.geojson its Success response points to come
\* from its own archive.  Stated for the requests that find no file of any
\* other name in the extraction directory, so that only the interleaving,
\* and no file left by an earlier request, can be the cause.
C1_RequestsIsolated ==
    (/\ last.resp = Success
     /\ DOMAIN extractDir \subseteq DOMAIN FilesOf(last.req.archive)) =>
        /\ ShpMembers(last.req.archive) # {}
        /\ Readable(OwnContent(last.req.archive))
        /\ last.read = LayerOf(OwnContent(last.req.archive))
        /\ last.artifact = OwnArtifact(last.req.archive)

\* C2: after any sequence of earlier requests, an upload whose archive holds
\* no file ending in '.shp' is answered 'No .shp file found in ZIP'.
C2_NoShpIsRejected ==
    (/\ Accepted(last)
     /\ IsZip(last.req.archive)
     /\ ShpMembers(last.req.archive) = {}) => last.resp = Error(NO_SHP)

FAILURES == {"BadZipFile", "DriverError", "DataSourceError", "OSError"}

\* C3: a request ends with one response, Success or Error; a failure of a
\* stage is returned as an Error response with the failure's text and never
\* escapes the handler; Success is returned only when every stage, the
\* write of top5.geojson included, has completed.
C3_OneStructuredResponse ==
    /\ \A t \in THREADS : pc[t] # "escaped"
    /\ last # NoRun => last.resp.message \in {"Success", "Error"}
    /\ last.resp = Success <=> last.stages = ALL_STAGES
    /\ last.resp = Success => last.artifact # NoLayer
    /\ (Accepted(last) /\ last.resp # Success) =>
          /\ last.resp.message = "Error"
          /\ last.resp.detail \in FAILURES \cup {NO_SHP}
          /\ last.resp.detail = "BadZipFile" <=> last.stages = {"save"}
          /\ last.resp.detail = NO_SHP <=> last.stages = {"save", "extract"}
          /\ last.resp.detail = "DriverError" <=> last.stages = {"save", "extract", "pick"}
          /\ last.resp.detail \in {"DataSourceError", "OSError"} <=>
                last.stages = {"save", "extract", "pick", "read"}

\* the failures of every stage have been caught: here the write of the GeoJSON
C3_Witness ==
    /\ last.resp = Error("OSError")
    /\ last.stages = {"save", "extract", "pick", "read"}
    /\ \E t \in THREADS : pc[t] = "extracted"

\* C4: once a request has responded, the archive and the extracted files it
\* wrote are gone.
C4_CleanedUp ==
    (IdleAll /\ Accepted(last)) => (zipFile = "absent" /\ DOMAIN extractDir = {})

\* C9: two runs in sequence with the same upload and the same
\* infrastructure data give the same ranking, values and artifact.
C9_Idempotent ==
    last.before # NoBefore =>
        /\ last.ranking = last.before.ranking
        /\ last.artifact = last.before.artifact

\* the second of two equal runs has returned, and it found the file of
\* another request in the extraction directory
C9_Witness ==
    /\ last.before # NoBefore
    /\ last.req.archive = "A"
    /\ B_SHP \in DOMAIN extractDir
    /\ Len(last.ranking.rows) > 1

\* the file names of REQUESTS whose extension after the last '.' is 'zip',
\* whatever the case
ZIP_NAMES == {ZIP_A, ZIP_B, ZIP_N, ZIP_X, ZIP_G}
PassesValidation(r) == r.hasFile /\ r.filename # NAME_EMPTY /\ r.filename \in ZIP_NAMES
RejectionText(r) ==
    IF ~r.hasFile THEN NO_FILE_PART
    ELSE IF r.filename = NAME_EMPTY THEN NO_SELECTED
    ELSE ONLY_ZIP

\* C10: a request that fails validation (no 'file' part, an empty file
\* name, an extension other than zip) gets the Error response of the first
\* check it fails, in that order, is never in flight, and its step leaves
\* shapefile.zip, the extraction directory and top5.geojson as they were.
C10_RejectionLeavesFolder ==
    [][/\ \A t \in THREADS : pc'[t] # "idle" => PassesValidation(req'[t])
       /\ (last' # last /\ ~PassesValidation(last'.req)) =>
             /\ last'.resp = Error(RejectionText(last'.req))
             /\ UNCHANGED folderVars
             /\ UNCHANGED pc]_vars

\* a request with a disallowed extension was rejected while the files of an
\* earlier upload were in the folder
C10_Witness ==
    /\ last.resp = Error(ONLY_ZIP)
    /\ last.req.filename = NAME_BAK
    /\ zipFile # "absent"
    /\ DOMAIN extractDir # {}
    /\ top5File # NoLayer

====
